---- MODULE Spec2Model ----
(***************************************************************************)
(* A model of the client-side commit worker pool, the write-marker chain   *)
(* and the list consensus aggregator of gosdk/zboxcore/sdk.                *)
(*                                                                         *)
(*   Spec      the commit worker pool and processCommit / commitBlobber    *)
(*   SpecList  getlistFromBlobbers / GetListFromBlobbers                   *)
(*   SpecThumb processThumbnail / pushThumbnailData / completeThumbnailPush*)
(***************************************************************************)
EXTENDS Integers, Sequences, FiniteSets, TLC

\* ------------------------------------------------------------------ bounds
MaxChans == 2        \* queues ever created by InitCommitWorker
MaxReqs == 2         \* CommitRequests ever handed to AddCommitRequest
MaxTime == 1         \* largest value of common.Now()
NumCallers == 2      \* goroutines calling InitCommitWorker

\* -------------------------------------------------------- program constants
ChanCap == 1         \* make(chan *CommitRequest, 1)

Nodes == {"b1", "b2"}
ChanIds == 1..MaxChans
ReqIds == 1..MaxReqs
Callers == 1..NumCallers

\* The blobber lists InitCommitWorker is called with.
NodeLists == {<<"b1">>, <<"b2">>, <<"b1", "b2">>, <<"b1", "b1">>}

VARIABLES
    \* --- commit worker pool (part_000)
    commitChan,     \* the registry: node id -> channel id, 0 when there is no entry
    chanBuf,        \* channel id -> the buffered requests
    chanClosed,     \* channel id -> whether the channel was closed
    chanNode,       \* channel id -> the blobberID its worker was started with
    nextChan,       \* channels made so far
    initCommitMutex,\* 0 when free, else the holder
    initPc,         \* caller -> "idle" | "loop"
    initList,       \* caller -> the blobbers it was called with
    initI,          \* caller -> the place of the range loop in them
    wPc,            \* worker (= channel id) -> "none" | "recv" | "fetch" | "submit"
                    \*                          | "exiting" | "locked" | "done"
    wReq,           \* worker -> the request it is processing, 0 when none
    reqs,           \* request id -> the CommitRequest, the locals of its processCommit
                    \*               and what happened to it
    bTree,          \* node id -> the tree the node stores
    bWM,            \* node id -> the node's latest write marker
    now,            \* common.Now()
    panicked,       \* a goroutine panicked: the process is gone
    \* --- history
    last,           \* the processCommit that ended last: the request as it was then
    accepted,       \* node id -> the markers the node accepted, in order
    enq,            \* requests in the order their sends completed
    deq,            \* requests in the order the workers received them
    registered,     \* node ids of the InitCommitWorker calls that returned
    closedNodes,    \* node ids whose queue was closed at some time
    \* --- list consensus (part_001)
    consensusThresh,\* req.consensusThresh, in percent
    fullconsensus,  \* req.fullconsensus
    mPc,            \* GetListFromBlobbers: "init" | "wait" | "collect" | "merge" | "done"
    tPc,            \* getListInfoFromBlobber of node i: "none" | "run" | "published" | "done"
    wg,             \* req.wg
    rspCh,          \* the responses buffered in rspCh
    listInfos,      \* the responses received from rspCh, in order
    mI,             \* i of the loop over lR
    result,         \* the ListResult being built
    childResultMap, \* identity key -> the child's ListResult
    selected,       \* the paths of the promoted children
    \* --- thumbnail dispatch (thumbnailupload.go)
    uploadMask,     \* req.uploadMask, a uint32
    isRepair,       \* req.isRepair
    thumbnailSize,  \* req.filemeta.ThumbnailSize
    thumbRemaining, \* req.thumbRemaining
    thumbnailHash,  \* the bytes written to req.thumbnailHashWr so far
    filemetaThumbnailHash, \* req.filemeta.ThumbnailHash
    uploadThumbCh,  \* channel index -> the messages handed over on it, in order
    thumbPc,        \* processThumbnail: "start" | "loop" | "push" | "complete" | "returned"
    ctr,            \* ctr of the loop over the chunks
    loopI,          \* i of the loop over the mask
    loopC,          \* c of the loop over the mask
    thumbWg,        \* the calls of wg.Done() by processThumbnail
    \* --- history
    pushes,         \* the calls of pushThumbnailData: len(data) and the budget before
    sends,          \* the sends of the last call of pushThumbnailData, in order
    thumbErr        \* what made processThumbnail return early, "none" otherwise

poolVars == <<commitChan, chanBuf, chanClosed, chanNode, nextChan, initCommitMutex,
              initPc, initList, initI, wPc, wReq, reqs, bTree, bWM, now,
              panicked, last, accepted, enq, deq, registered, closedNodes>>

listVars == <<consensusThresh, fullconsensus, mPc, tPc, wg, rspCh, listInfos, mI,
              result, childResultMap, selected>>

thumbVars == <<uploadMask, isRepair, thumbnailSize, thumbRemaining, thumbnailHash,
               filemetaThumbnailHash, uploadThumbCh, thumbPc, ctr, loopI, loopC,
               thumbWg, pushes, sends, thumbErr>>

vars == <<poolVars, listVars, thumbVars>>

\* ------------------------------------------------------------ strings, hashes
\* Strings are kept structurally, so that Hash and "+" are injective.
EmptyStr == [empty |-> TRUE]
FormatInt(t) == [int |-> t]
Colon(a, b) == [l |-> a, r |-> b]
Hash(s) == [hashOf |-> s]
\* An allocation_root altered in transit.
Tampered(root) == [altered |-> root]

\* ------------------------------------------------------------ changes, trees
\* An AllocationChange: its affected path, GetSize and whether ProcessChange fails.
Changes == {
    [id |-> 1, path |-> "/a", size |-> 1, fails |-> FALSE],
    [id |-> 2, path |-> "/b", size |-> 2, fails |-> FALSE],
    [id |-> 3, path |-> "/c", size |-> 4, fails |-> TRUE] }

Change(i) == CHOOSE c \in Changes : c.id = i

\* The batches of the requests, as sequences of change ids.
Batches == { <<>>, <<1, 2>>, <<1, 3, 2>> }

\* fileref.Ref: the children (as the changes applied so far) and the Hash field.
NilRef == [nilref |-> TRUE]
TreeHash(children) == Hash([tree |-> children])
CalculateHash(ref) == [ref EXCEPT !.Hash = TreeHash(ref.children)]

\* ------------------------------------------------------------- write markers
NoWM == [nowm |-> TRUE]
ClientKey == "client"
OtherKey == "mallory"

WMContent(wm) == [root |-> wm.root, prev |-> wm.prev, size |-> wm.size,
                  ts |-> wm.ts, blobber |-> wm.blobber]
Sign(wm, key) == [wm EXCEPT !.sig = [by |-> key, over |-> WMContent(wm)]]
VerifySignature(wm, pub) == wm.sig = [by |-> pub, over |-> WMContent(wm)]

NoSig == [nosig |-> TRUE]

\* ------------------------------------------------------------ CommitResult
NoResult == [noresult |-> TRUE]
ErrorCommitResult(errMsg) == [Success |-> FALSE, ErrorMessage |-> errMsg]
SuccessCommitResult == [Success |-> TRUE, ErrorMessage |-> ""]

\* ------------------------------------------------------------ the requests
NoLR == [kind |-> "none", ref |-> NilRef, lwm |-> NoWM]

NewReq == [state |-> "new", node |-> "b1", batch |-> <<>>, ch |-> 0,
           result |-> NoResult, done |-> 0,
           lR |-> NoLR, lwmLatest |-> FALSE, applied |-> 0, ref |-> NilRef,
           wm |-> NoWM, calls |-> <<>>]

\* ------------------------------------------------------------------- Init
PoolInit ==
    /\ commitChan = [n \in Nodes |-> 0]
    /\ chanBuf = [c \in ChanIds |-> <<>>]
    /\ chanClosed = [c \in ChanIds |-> FALSE]
    /\ chanNode = [c \in ChanIds |-> "b1"]
    /\ nextChan = 0
    /\ initCommitMutex = 0
    /\ initPc = [c \in Callers |-> "idle"]
    /\ initList = [c \in Callers |-> <<>>]
    /\ initI = [c \in Callers |-> 1]
    /\ wPc = [c \in ChanIds |-> "none"]
    /\ wReq = [c \in ChanIds |-> 0]
    /\ reqs = [r \in ReqIds |-> NewReq]
    /\ bTree = [n \in Nodes |-> <<>>]
    /\ bWM = [n \in Nodes |-> NoWM]
    /\ now = 0
    /\ panicked = FALSE
    /\ last = NewReq
    /\ accepted = [n \in Nodes |-> <<>>]
    /\ enq = <<>>
    /\ deq = <<>>
    /\ registered = {}
    /\ closedNodes = {}

\* No list request is under way.
ListIdle ==
    /\ consensusThresh = 0
    /\ fullconsensus = 0
    /\ mPc = "idle"
    /\ tPc = <<>>
    /\ wg = 0
    /\ rspCh = <<>>
    /\ listInfos = <<>>
    /\ mI = 0
    /\ result = <<>>
    /\ childResultMap = <<>>
    /\ selected = {}

\* No thumbnail is being dispatched.
ThumbIdle ==
    /\ uploadMask = 0
    /\ isRepair = FALSE
    /\ thumbnailSize = 0
    /\ thumbRemaining = 0
    /\ thumbnailHash = <<>>
    /\ filemetaThumbnailHash = EmptyStr
    /\ uploadThumbCh = <<>>
    /\ thumbPc = "idle"
    /\ ctr = 0
    /\ loopI = 0
    /\ loopC = 0
    /\ thumbWg = 0
    /\ pushes = <<>>
    /\ sends = <<>>
    /\ thumbErr = "none"

Init == PoolInit /\ ListIdle /\ ThumbIdle

\* ------------------------------------------------------- InitCommitWorker
\* The lookup that never finds the entry.
HasEntryNever(b) == FALSE

\* _, ok := commitChan[blobber.ID]
HasEntry(b) == commitChan[b] # 0

\* initCommitMutex.Lock(), on entry
InitLock(c, list) ==
    /\ ~panicked
    /\ initPc[c] = "idle"
    /\ nextChan + Len(list) <= MaxChans
    /\ initCommitMutex = 0
    /\ initCommitMutex' = c
    /\ initPc' = [initPc EXCEPT ![c] = "loop"]
    /\ initList' = [initList EXCEPT ![c] = list]
    /\ initI' = [initI EXCEPT ![c] = 1]
    /\ UNCHANGED <<listVars, thumbVars, last, commitChan, chanBuf, chanClosed, chanNode, nextChan, wPc, wReq,
                   reqs, bTree, bWM, now, panicked, accepted, enq, deq, registered,
                   closedNodes>>

\* One iteration of the range loop: make the queue and start its worker.
InitStep(c) ==
    /\ ~panicked
    /\ initPc[c] = "loop"
    /\ initI[c] <= Len(initList[c])
    /\ LET b == initList[c][initI[c]] IN
       /\ IF ~HasEntry(b)
          THEN /\ nextChan' = nextChan + 1
               /\ commitChan' = [commitChan EXCEPT ![b] = nextChan + 1]
               /\ chanNode' = [chanNode EXCEPT ![nextChan + 1] = b]
               /\ wPc' = [wPc EXCEPT ![nextChan + 1] = "recv"]
          ELSE UNCHANGED <<nextChan, commitChan, chanNode, wPc>>
       /\ registered' = registered \cup {b}
    /\ initI' = [initI EXCEPT ![c] = @ + 1]
    /\ UNCHANGED <<listVars, thumbVars, last, chanBuf, chanClosed, initCommitMutex, initPc, initList, wReq,
                   reqs, bTree, bWM, now, panicked, accepted, enq, deq, closedNodes>>

\* The loop is over: the deferred Unlock, and the call returns.
InitUnlock(c) ==
    /\ ~panicked
    /\ initPc[c] = "loop"
    /\ initI[c] > Len(initList[c])
    /\ initCommitMutex' = 0
    /\ initPc' = [initPc EXCEPT ![c] = "idle"]
    /\ initList' = [initList EXCEPT ![c] = <<>>]
    /\ initI' = [initI EXCEPT ![c] = 1]
    /\ UNCHANGED <<listVars, thumbVars, last, commitChan, chanBuf, chanClosed, chanNode, nextChan, wPc,
                   wReq, reqs, bTree, bWM, now, panicked, accepted, enq, deq,
                   registered, closedNodes>>

\* The queue of node b is closed by its owner (nothing else ends a worker).
CloseQueue(b) ==
    /\ ~panicked
    /\ commitChan[b] # 0
    /\ ~chanClosed[commitChan[b]]
    /\ chanClosed' = [chanClosed EXCEPT ![commitChan[b]] = TRUE]
    /\ closedNodes' = closedNodes \cup {b}
    /\ UNCHANGED <<listVars, thumbVars, last, commitChan, chanBuf, chanNode, nextChan, initCommitMutex, initPc,
                   initList, initI, wPc, wReq, reqs, bTree, bWM, now, panicked, accepted,
                   enq, deq, registered>>

\* -------------------------------------------------------- AddCommitRequest
\* The requests are numbered in the order AddCommitRequest is called.
NextReq == Cardinality({r \in ReqIds : reqs[r].state # "new"}) + 1

\* commitChan[req.blobber.ID]: the map is read without the mutex; a missing entry
\* reads as the nil channel (0).
AddLookup(r, b, batch) ==
    /\ ~panicked
    /\ r = NextReq
    /\ reqs' = [reqs EXCEPT ![r] = [@ EXCEPT !.state = "sending", !.node = b,
                                            !.batch = batch, !.ch = commitChan[b]]]
    /\ UNCHANGED <<listVars, thumbVars, last, commitChan, chanBuf, chanClosed, chanNode, nextChan,
                   initCommitMutex, initPc, initList, initI, wPc, wReq, bTree, bWM, now,
                   panicked, accepted, enq, deq, registered, closedNodes>>

\* A goroutine holds initCommitMutex and is about to write commitChan.
RegistryWriter ==
    \/ \E c \in Callers : /\ initPc[c] = "loop"
                           /\ initI[c] <= Len(initList[c])
                           /\ ~HasEntry(initList[c][initI[c]])
    \/ \E w \in ChanIds : wPc[w] = "locked"

\* The lookup of AddCommitRequest overlaps a write of the map: other than reading
\* the value before or after the write (AddLookup), the runtime may end the
\* process with "concurrent map read and map write".
AddLookupRace(r, b, batch) ==
    /\ ~panicked
    /\ r = NextReq
    /\ RegistryWriter
    /\ reqs' = [reqs EXCEPT ![r] = [@ EXCEPT !.state = "raced", !.node = b,
                                            !.batch = batch]]
    /\ panicked' = TRUE
    /\ UNCHANGED <<listVars, thumbVars, last, commitChan, chanBuf, chanClosed, chanNode, nextChan,
                   initCommitMutex, initPc, initList, initI, wPc, wReq, bTree, bWM, now,
                   accepted, enq, deq, registered, closedNodes>>

\* The send with the queue looked up again at the time of the send.
AddSendLooksUpAgain(r) ==
    /\ ~panicked
    /\ reqs[r].state = "sending"
    /\ commitChan[reqs[r].node] # 0
    /\ LET ch == commitChan[reqs[r].node] IN
       IF chanClosed[ch]
       THEN /\ panicked' = TRUE
            /\ UNCHANGED <<chanBuf, reqs, enq>>
       ELSE /\ Len(chanBuf[ch]) < ChanCap
            /\ chanBuf' = [chanBuf EXCEPT ![ch] = Append(@, r)]
            /\ reqs' = [reqs EXCEPT ![r].state = "queued"]
            /\ enq' = Append(enq, r)
            /\ UNCHANGED panicked
    /\ UNCHANGED <<listVars, thumbVars, last, commitChan, chanClosed, chanNode, nextChan, initCommitMutex,
                   initPc, initList, initI, wPc, wReq, bTree, bWM, now, accepted, deq,
                   registered, closedNodes>>

\* ch <- req: blocks on the nil channel and on a full buffer, panics on a closed
\* channel.
AddSend(r) ==
    /\ ~panicked
    /\ reqs[r].state = "sending"
    /\ reqs[r].ch # 0
    /\ IF chanClosed[reqs[r].ch]
       THEN /\ panicked' = TRUE
            /\ UNCHANGED <<chanBuf, reqs, enq>>
       ELSE /\ Len(chanBuf[reqs[r].ch]) < ChanCap
            /\ chanBuf' = [chanBuf EXCEPT ![reqs[r].ch] = Append(@, r)]
            /\ reqs' = [reqs EXCEPT ![r].state = "queued"]
            /\ enq' = Append(enq, r)
            /\ UNCHANGED panicked
    /\ UNCHANGED <<listVars, thumbVars, last, commitChan, chanClosed, chanNode, nextChan, initCommitMutex,
                   initPc, initList, initI, wPc, wReq, bTree, bWM, now, accepted, deq,
                   registered, closedNodes>>

\* ------------------------------------------------------------ processCommit
\* for _, change := range commitreq.changes { path = change.GetAffectedPath() }
AffectedPath(batch) ==
    IF batch = <<>> THEN "" ELSE Change(batch[Len(batch)]).path

\* What the node answers to the reference path request, read by HttpDo's callback:
\* a transport error, a non-OK status or a body that does not decode ("neterr"), or
\* a ReferencePathResult. The node is not trusted: besides its tree and latest
\* marker it may send a marker whose allocation_root was altered, a marker signed
\* with another key, a tree that is not the one the marker commits to, no marker
\* although it holds one, an earlier marker with the tree of that time, or a
\* reference path GetDirTree cannot build a tree from.
Ref(children) == [children |-> children, Hash |-> TreeHash(children)]

FetchResponses(b) ==
    LET lwm == bWM[b]
        ref == Ref(bTree[b])
    IN  { [kind |-> "neterr", ref |-> NilRef, lwm |-> NoWM],
          [kind |-> "honest", ref |-> ref, lwm |-> lwm],
          [kind |-> "dirErr", ref |-> ref, lwm |-> lwm],
          [kind |-> "staleTree", ref |-> Ref(<<0>> \o bTree[b]), lwm |-> lwm] }
        \cup
        (IF lwm = NoWM THEN {} ELSE
         { [kind |-> "tamperedRoot", ref |-> ref,
            lwm |-> [lwm EXCEPT !.root = Tampered(lwm.root)]],
           [kind |-> "forgedSig", ref |-> ref, lwm |-> Sign(lwm, OtherKey)],
           [kind |-> "hiddenWM", ref |-> ref, lwm |-> NoWM] })
        \cup
        (IF Len(accepted[b]) < 2 THEN {} ELSE
         { [kind |-> "replay", ref |-> Ref(accepted[b][1].children),
            lwm |-> accepted[b][1].wm] })

\* lR.GetDirTree(allocationID): the tree, or nil and an error.
GetDirTree(lR) ==
    IF lR.kind = "dirErr" THEN [ref |-> NilRef, err |-> "dirtree"]
    ELSE [ref |-> lR.ref, err |-> "nil"]

\* change.ProcessChange(rootRef): adds the change to the tree and recalculates the
\* hashes up to the root, or fails and leaves the tree.
ProcessChange(ref, c) ==
    IF c.fails THEN [ref |-> ref, err |-> "mutation"]
    ELSE [ref |-> CalculateHash([ref EXCEPT !.children = Append(@, c.id)]),
          err |-> "nil"]

\* The loop over commitreq.changes, from change number i on: stops at the first
\* failure.
RECURSIVE ApplyChanges(_, _, _, _)
ApplyChanges(ref, batch, i, size) ==
    IF i > Len(batch) THEN [ref |-> ref, size |-> size, err |-> "nil", applied |-> i - 1]
    ELSE LET p == ProcessChange(ref, Change(batch[i])) IN
         IF p.err # "nil"
         THEN [ref |-> p.ref, size |-> size, err |-> p.err, applied |-> i - 1]
         ELSE ApplyChanges(p.ref, batch, i + 1, size + Change(batch[i]).size)

\* The previous marker's chain link: Hash(rootRef.Hash + ":" + Timestamp).
AllocationRoot(rootHash, timestamp) == Hash(Colon(rootHash, FormatInt(timestamp)))

\* The loop without its break: err is the last change's.
RECURSIVE ApplyChangesNoBreak(_, _, _, _, _)
ApplyChangesNoBreak(ref, batch, i, size, err) ==
    IF i > Len(batch)
    THEN [ref |-> ref, size |-> size, err |-> err, applied |-> Len(batch)]
    ELSE LET p == ProcessChange(ref, Change(batch[i])) IN
         ApplyChangesNoBreak(p.ref, batch, i + 1, size + Change(batch[i]).size, p.err)

MutationsNoBreak(rootRef, batch) == ApplyChangesNoBreak(rootRef, batch, 1, 0, "nil")

\* size := int64(0); for _, change := range commitreq.changes { ... }
Mutations(rootRef, batch) == ApplyChanges(rootRef, batch, 1, 0)

\* The verification left out.
VerifyLatestWMSkipped(t, lwm) == [out |-> "go", ref |-> t.ref, err |-> t.err]

\* The verification without the chain check.
VerifyLatestWMSignatureOnly(t, lwm) ==
    IF lwm = NoWM THEN [out |-> "go", ref |-> t.ref, err |-> t.err]
    ELSE IF ~VerifySignature(lwm, ClientKey)
         THEN [out |-> "fail", msg |-> "sig", applied |-> 0, ref |-> NilRef]
    ELSE IF t.ref = NilRef THEN [out |-> "panic"]
    ELSE [out |-> "go", ref |-> CalculateHash(t.ref), err |-> "nil"]

\* The verification of the latest marker, when there is one: "fail" with the
\* result's error message, "panic" (CalculateHash of the nil tree), or "go" with
\* the tree and err as they are after it (VerifySignature's result overwrites
\* GetDirTree's).
VerifyLatestWM(t, lwm) ==
    IF lwm = NoWM THEN [out |-> "go", ref |-> t.ref, err |-> t.err]
    ELSE IF ~VerifySignature(lwm, ClientKey)
         THEN [out |-> "fail", msg |-> "sig", applied |-> 0, ref |-> NilRef]
    ELSE IF t.ref = NilRef THEN [out |-> "panic"]
    ELSE IF AllocationRoot(CalculateHash(t.ref).Hash, lwm.ts) # lwm.root
         THEN [out |-> "fail", msg |-> "mismatch", applied |-> 0, ref |-> NilRef]
    ELSE [out |-> "go", ref |-> CalculateHash(t.ref), err |-> "nil"]

\* processCommit from the answer of the reference path request to the call of
\* commitBlobber: "fail" with the result's error message, "panic", or "commit" with
\* the mutated tree and the size.
AfterFetch(batch, lR) ==
    IF lR.kind = "neterr"
    THEN [out |-> "fail", msg |-> "net", applied |-> 0, ref |-> NilRef]
    ELSE
    LET verified == VerifyLatestWM(GetDirTree(lR), lR.lwm)
    IN  IF verified.out # "go" THEN verified
        ELSE IF verified.err # "nil"
             THEN [out |-> "fail", msg |-> verified.err, applied |-> 0, ref |-> NilRef]
        ELSE LET a == Mutations(verified.ref, batch) IN
             IF a.err # "nil"
             THEN [out |-> "fail", msg |-> a.err, applied |-> a.applied, ref |-> a.ref]
             ELSE [out |-> "commit", ref |-> a.ref, size |-> a.size,
                   applied |-> a.applied]

\* The link taken from the wrong field of the latest marker.
PreviousAllocationRootOfPrev(latestWM) ==
    IF latestWM # NoWM THEN latestWM.prev ELSE EmptyStr

\* wm.PreviousAllocationRoot
PreviousAllocationRoot(latestWM) ==
    IF latestWM # NoWM THEN latestWM.root ELSE EmptyStr

\* commitBlobber up to wm.Sign(): the marker.
BuildWM(rootRef, latestWM, size, blobber, timestamp) ==
    Sign([root |-> AllocationRoot(rootRef.Hash, timestamp),
          prev |-> PreviousAllocationRoot(latestWM),
          size |-> size, ts |-> timestamp, blobber |-> blobber, sig |-> NoSig],
         ClientKey)

\* The worker's state after processCommit returned.
Returned(w) ==
    /\ wPc' = [wPc EXCEPT ![w] = "recv"]
    /\ wReq' = [wReq EXCEPT ![w] = 0]

\* commitreq.result = ...; commitreq.wg.Done(); return
Finish(req, res) ==
    [req EXCEPT !.state = "returned", !.result = res, !.done = @ + 1]

\* What is kept of a request once its processCommit ended: the locals are gone.
Compact(req) ==
    [NewReq EXCEPT !.state = req.state, !.node = req.node, !.result = req.result,
                   !.done = req.done]

\* processCommit of request r ends with the request as rec.
End(r, rec) ==
    /\ reqs' = [reqs EXCEPT ![r] = Compact(rec)]
    /\ last' = [rec EXCEPT !.ch = r]

\* ------------------------------------------------------- startCommitWorker
\* The worker is at its receive: processCommit is called, not started as a
\* goroutine, so the loop is back at the receive only when it returned.
ReceivingAlways(w) == wPc[w] \in {"recv", "fetch", "submit"}

Receiving(w) == wPc[w] = "recv"

\* commitreq, open := <-blobberChan with a buffered request, and processCommit up
\* to the reference path request: the request is built, and without an error and
\* with a non-empty path it is sent; otherwise processCommit returns.
WorkerRecv(w, reqErr) ==
    /\ ~panicked
    /\ Receiving(w)
    /\ chanBuf[w] # <<>>
    /\ LET r == Head(chanBuf[w]) IN
       /\ chanBuf' = [chanBuf EXCEPT ![w] = Tail(@)]
       /\ deq' = Append(deq, r)
       /\ IF reqErr \/ AffectedPath(reqs[r].batch) = ""
          THEN /\ End(r, [reqs[r] EXCEPT !.state = "returned"])
               /\ UNCHANGED <<wPc, wReq>>
          ELSE /\ reqs' = [reqs EXCEPT ![r] = [@ EXCEPT !.state = "processing",
                                                      !.calls = <<"fetch">>]]
               /\ wPc' = [wPc EXCEPT ![w] = "fetch"]
               /\ wReq' = [wReq EXCEPT ![w] = r]
               /\ UNCHANGED last
    /\ UNCHANGED <<listVars, thumbVars, commitChan, chanClosed, chanNode, nextChan, initCommitMutex,
                   initPc, initList, initI, bTree, bWM, now, panicked, accepted, enq,
                   registered, closedNodes>>

\* The loop ends as soon as the channel is closed, whatever it still buffers.
WorkerRecvClosedEarly(w) ==
    /\ ~panicked
    /\ wPc[w] = "recv"
    /\ chanClosed[w]
    /\ wPc' = [wPc EXCEPT ![w] = "exiting"]
    /\ UNCHANGED <<listVars, thumbVars, last, commitChan, chanBuf, chanClosed, chanNode, nextChan,
                   initCommitMutex, initPc, initList, initI, wReq, reqs, bTree, bWM, now,
                   panicked, accepted, enq, deq, registered, closedNodes>>

\* The receive on the closed and drained channel: open is false, the loop ends.
WorkerRecvClosed(w) ==
    /\ ~panicked
    /\ wPc[w] = "recv"
    /\ chanBuf[w] = <<>>
    /\ chanClosed[w]
    /\ wPc' = [wPc EXCEPT ![w] = "exiting"]
    /\ UNCHANGED <<listVars, thumbVars, last, commitChan, chanBuf, chanClosed, chanNode, nextChan,
                   initCommitMutex, initPc, initList, initI, wReq, reqs, bTree, bWM, now,
                   panicked, accepted, enq, deq, registered, closedNodes>>

\* The reference path request returns; verification, the mutations and
\* commitBlobber up to its commit request.
FetchReturn(w, lR, timestamp, signErr) ==
    /\ ~panicked
    /\ wPc[w] = "fetch"
    /\ LET r == wReq[w]
           b == reqs[r].node
           a == AfterFetch(reqs[r].batch, lR)
           seen == [reqs[r] EXCEPT !.lR = lR, !.lwmLatest = (lR.lwm = bWM[b]),
                                   !.applied = IF a.out = "panic" THEN 0 ELSE a.applied]
       IN
       /\ lR \in FetchResponses(b)
       /\ CASE a.out = "panic" ->
                 /\ panicked' = TRUE
                 /\ End(r, [seen EXCEPT !.state = "panicked"])
                 /\ UNCHANGED <<wPc, wReq, now>>
            [] a.out = "fail" ->
                 /\ End(r, Finish([seen EXCEPT !.ref = a.ref], ErrorCommitResult(a.msg)))
                 /\ Returned(w)
                 /\ UNCHANGED <<panicked, now>>
            [] a.out = "commit" /\ signErr ->
                 /\ End(r, Finish([seen EXCEPT !.ref = a.ref],
                                  ErrorCommitResult("commit")))
                 /\ Returned(w)
                 /\ UNCHANGED <<panicked, now>>
            [] a.out = "commit" /\ ~signErr ->
                 /\ reqs' = [reqs EXCEPT ![r] =
                                [seen EXCEPT !.ref = a.ref,
                                             !.wm = BuildWM(a.ref, lR.lwm, a.size, b,
                                                            timestamp),
                                             !.calls = Append(@, "commit")]]
                 /\ wPc' = [wPc EXCEPT ![w] = "submit"]
                 /\ now' = timestamp
                 /\ UNCHANGED <<wReq, panicked, last>>
    /\ UNCHANGED <<listVars, thumbVars, commitChan, chanBuf, chanClosed, chanNode, nextChan,
                   initCommitMutex, initPc, initList, initI, bTree, bWM, accepted, enq, deq,
                   registered, closedNodes>>

\* The commit request returns: "ok" (the node stored the marker and answered 200),
\* "rejected" (another status, nothing stored) or "lost" (the node stored the
\* marker and the answer did not arrive in time).
SubmitReturn(w, outcome) ==
    /\ ~panicked
    /\ wPc[w] = "submit"
    /\ LET r == wReq[w]
           b == reqs[r].node
       IN
       /\ IF outcome \in {"ok", "lost"}
          THEN /\ bTree' = [bTree EXCEPT ![b] = reqs[r].ref.children]
               /\ bWM' = [bWM EXCEPT ![b] = reqs[r].wm]
               /\ accepted' = [accepted EXCEPT ![b] =
                                 Append(@, [wm |-> reqs[r].wm,
                                            children |-> reqs[r].ref.children,
                                            lwmLatest |-> reqs[r].lwmLatest])]
          ELSE UNCHANGED <<bTree, bWM, accepted>>
       /\ End(r, Finish(reqs[r], IF outcome = "ok" THEN SuccessCommitResult
                                 ELSE ErrorCommitResult("commit")))
    /\ Returned(w)
    /\ UNCHANGED <<listVars, thumbVars, commitChan, chanBuf, chanClosed, chanNode, nextChan,
                   initCommitMutex, initPc, initList, initI, now, panicked, enq, deq,
                   registered, closedNodes>>

\* initCommitMutex.Lock() after the loop
WorkerLock(w) ==
    /\ ~panicked
    /\ wPc[w] = "exiting"
    /\ initCommitMutex = 0
    /\ initCommitMutex' = NumCallers + w
    /\ wPc' = [wPc EXCEPT ![w] = "locked"]
    /\ UNCHANGED <<listVars, thumbVars, last, commitChan, chanBuf, chanClosed, chanNode, nextChan, initPc,
                   initList, initI, wReq, reqs, bTree, bWM, now, panicked, accepted, enq,
                   deq, registered, closedNodes>>

\* delete(commitChan, blobberID) and the deferred Unlock
WorkerDelete(w) ==
    /\ ~panicked
    /\ wPc[w] = "locked"
    /\ commitChan' = [commitChan EXCEPT ![chanNode[w]] = 0]
    /\ initCommitMutex' = 0
    /\ wPc' = [wPc EXCEPT ![w] = "done"]
    /\ UNCHANGED <<listVars, thumbVars, last, chanBuf, chanClosed, chanNode, nextChan, initPc, initList, initI, wReq,
                   reqs, bTree, bWM, now, panicked, accepted, enq, deq, registered,
                   closedNodes>>

\* common.Now() at the call of commitBlobber: the clock does not run backwards.
Timestamps == {t \in {now, now + 1} : t <= MaxTime}

\* The pool with two nodes, the requests' batches and the node's answers kept few.
PoolBatches == { <<>>, <<1, 2>> }
PoolKinds == {"honest"}

Next ==
    \/ \E c \in Callers, list \in NodeLists : InitLock(c, list)
    \/ \E c \in Callers : InitStep(c)
    \/ \E c \in Callers : InitUnlock(c)
    \/ \E b \in Nodes : CloseQueue(b)
    \/ \E r \in ReqIds, b \in Nodes, batch \in PoolBatches : AddLookup(r, b, batch)
    \/ \E r \in ReqIds, b \in Nodes, batch \in PoolBatches : AddLookupRace(r, b, batch)
    \/ \E r \in ReqIds : AddSend(r)
    \/ \E w \in ChanIds : WorkerRecv(w, FALSE)
    \/ \E w \in ChanIds : WorkerRecvClosed(w)
    \/ \E w \in ChanIds :
          \E lR \in {x \in UNION {FetchResponses(b) : b \in Nodes} : x.kind \in PoolKinds} :
             FetchReturn(w, lR, now, FALSE)
    \/ \E w \in ChanIds : SubmitReturn(w, "ok")
    \/ \E w \in ChanIds : WorkerLock(w)
    \/ \E w \in ChanIds : WorkerDelete(w)

Spec == Init /\ [][Next]_vars

\* The steps of the worker of queue w that need nothing but the scheduler and the
\* timeouts of its requests.
WorkerStep(w) ==
    \/ WorkerRecv(w, FALSE)
    \/ WorkerRecvClosed(w)
    \/ \E lR \in {x \in UNION {FetchResponses(b) : b \in Nodes} : x.kind \in PoolKinds} :
          FetchReturn(w, lR, now, FALSE)
    \/ SubmitReturn(w, "ok")
    \/ WorkerDelete(w)

\* Every goroutine is scheduled, every request ends within its timeout, and a
\* goroutine that waits for initCommitMutex gets it (sync.Mutex hands a starving
\* waiter the lock).
PoolFairness ==
    /\ \A w \in ChanIds : WF_vars(WorkerStep(w)) /\ SF_vars(WorkerLock(w))
    /\ WF_vars(\E c \in Callers : InitStep(c) \/ InitUnlock(c))

\* The pool with one caller of InitCommitWorker.
NextFair ==
    \/ \E list \in {<<"b1">>, <<"b1", "b2">>} : InitLock(1, list)
    \/ InitStep(1)
    \/ InitUnlock(1)
    \/ \E b \in Nodes : CloseQueue(b)
    \/ \E r \in ReqIds, b \in Nodes, batch \in PoolBatches : AddLookup(r, b, batch)
    \/ \E r \in ReqIds, b \in Nodes, batch \in PoolBatches : AddLookupRace(r, b, batch)
    \/ \E r \in ReqIds : AddSend(r)
    \/ \E w \in ChanIds : WorkerStep(w)
    \/ \E w \in ChanIds : WorkerLock(w)

SpecFair == Init /\ [][NextFair]_vars /\ PoolFairness

\* One node, every batch and every answer of the node.
NextCommit ==
    \/ InitLock(1, <<"b1">>)
    \/ InitStep(1)
    \/ InitUnlock(1)
    \/ \E r \in ReqIds, batch \in Batches : AddLookup(r, "b1", batch)
    \/ \E r \in ReqIds, batch \in Batches : AddLookupRace(r, "b1", batch)
    \/ \E r \in ReqIds : AddSend(r)
    \/ \E w \in ChanIds, reqErr \in BOOLEAN : WorkerRecv(w, reqErr)
    \/ \E w \in ChanIds, lR \in FetchResponses("b1"), timestamp \in Timestamps,
          signErr \in BOOLEAN :
          FetchReturn(w, lR, timestamp, signErr)
    \/ \E w \in ChanIds, outcome \in {"ok", "rejected", "lost"} : SubmitReturn(w, outcome)

SpecCommit == Init /\ [][NextCommit]_vars

\* ====================================================== the list consensus
NumBlobbers == 4     \* len(req.blobbers)
Blobbers == 0..(NumBlobbers - 1)

\* The children the nodes list: two versions of the file /a and the directory /d.
FileA1 == [Type |-> "f", Name |-> "a", Path |-> "/a", ActualFileHash |-> "h1",
           Size |-> 10, MimeType |-> "m1", NumBlocks |-> 1]
FileA2 == [Type |-> "f", Name |-> "a", Path |-> "/a", ActualFileHash |-> "h2",
           Size |-> 20, MimeType |-> "m2", NumBlocks |-> 2]
\* The first version again, as another node reports it.
FileA1b == [Type |-> "f", Name |-> "a", Path |-> "/a", ActualFileHash |-> "h1",
            Size |-> 30, MimeType |-> "m3", NumBlocks |-> 4]
DirD ==   [Type |-> "d", Name |-> "d", Path |-> "/d", ActualFileHash |-> "",
           Size |-> 0, MimeType |-> "", NumBlocks |-> 3]

\* ref := &fileref.Ref{}
EmptyDirRef == [Name |-> "", Path |-> "", Type |-> "", Children |-> <<>>]
DirRef(children) == [Name |-> "/", Path |-> "/", Type |-> "d", Children |-> children]

\* The children of the trees the nodes answer with.
Listings == { <<FileA1, DirD>>, <<FileA2>>, <<FileA1b>>, <<FileA1, FileA1>> }

\* What getListInfoFromBlobber ends with: ref and err at the deferred listRetFn.
\*   "reqErr"   NewListRequest failed: the early return
\*   "httpErr"  a transport error or timeout, a non-OK status, a body that does not
\*              parse
\*   "treeErr"  GetDirTree failed: ref is nil
\*   a listing  success
Outcomes ==
    {[kind |-> k, children |-> <<>>] : k \in {"reqErr", "httpErr", "treeErr"}}
    \cup {[kind |-> "ok", children |-> l] : l \in Listings}

listResponse(blobberIdx, outcome) ==
    IF outcome.kind \in {"reqErr", "httpErr"}
    THEN [ref |-> EmptyDirRef, blobberIdx |-> blobberIdx, err |-> TRUE]
    ELSE IF outcome.kind = "treeErr"
    THEN [ref |-> NilRef, blobberIdx |-> blobberIdx, err |-> TRUE]
    ELSE [ref |-> DirRef(outcome.children), blobberIdx |-> blobberIdx, err |-> FALSE]

\* Consensus.isConsensusMin: the rate consensus*100/fullconsensus has reached
\* consensusThresh.
isConsensusMin(c) == c.consensus * 100 >= c.consensusThresh * c.fullconsensus

\* actualHash: encryption.Hash(path), for a file encryption.Hash(path + ":" + hash)
ActualHash(child) ==
    IF child.Type = "f" THEN Hash(<<child.Path, ":", child.ActualFileHash>>)
    ELSE Hash(<<child.Path>>)

\* The map m with m[k] = v.
Put(m, k, v) == [x \in (DOMAIN m) \cup {k} |-> IF x = k THEN v ELSE m[x]]

\* The loop body with the size recorded by the first response only.
MergeChildSizeOnce(st, child) ==
    LET key == ActualHash(child)
        fresh == [Name |-> child.Name, Path |-> child.Path, Type |-> child.Type,
                  Size |-> 0, Hash |-> "", MimeType |-> "", NumBlocks |-> 0,
                  consensus |-> 0, consensusThresh |-> consensusThresh,
                  fullconsensus |-> fullconsensus]
        old == IF key \in DOMAIN st.map THEN st.map[key] ELSE fresh
        counted == [old EXCEPT !.consensus = @ + 1]
        filled == IF child.Type = "f"
                  THEN [counted EXCEPT !.Size = IF old.consensus = 0 THEN child.Size ELSE @,
                                       !.Hash = child.ActualFileHash,
                                       !.MimeType = child.MimeType]
                  ELSE counted
        new == [filled EXCEPT !.NumBlocks = @ + child.NumBlocks]
        promote == isConsensusMin(new) /\ child.Path \notin st.selected
    IN  [map |-> Put(st.map, key, new),
         selected |-> IF promote THEN st.selected \cup {child.Path} ELSE st.selected,
         kids |-> IF promote THEN Append(st.kids, key) ELSE st.kids]

\* The body of the loop over ref.Children for one child; st holds childResultMap,
\* selected and result.Children (as identity keys: the entries are pointers into
\* the map).
MergeChild(st, child) ==
    LET key == ActualHash(child)
        fresh == [Name |-> child.Name, Path |-> child.Path, Type |-> child.Type,
                  Size |-> 0, Hash |-> "", MimeType |-> "", NumBlocks |-> 0,
                  consensus |-> 0, consensusThresh |-> consensusThresh,
                  fullconsensus |-> fullconsensus]
        old == IF key \in DOMAIN st.map THEN st.map[key] ELSE fresh
        counted == [old EXCEPT !.consensus = @ + 1]
        filled == IF child.Type = "f"
                  THEN [counted EXCEPT !.Size = @ + child.Size,
                                       !.Hash = child.ActualFileHash,
                                       !.MimeType = child.MimeType]
                  ELSE counted
        new == [filled EXCEPT !.NumBlocks = @ + child.NumBlocks]
        promote == isConsensusMin(new) /\ child.Path \notin st.selected
    IN  [map |-> Put(st.map, key, new),
         selected |-> IF promote THEN st.selected \cup {child.Path} ELSE st.selected,
         kids |-> IF promote THEN Append(st.kids, key) ELSE st.kids]

RECURSIVE MergeChildren(_, _, _)
MergeChildren(st, children, k) ==
    IF k > Len(children) THEN st
    ELSE MergeChildren(MergeChild(st, children[k]), children, k + 1)

\* for _, child := range result.Children { result.NumBlocks += child.NumBlocks }
RECURSIVE SumNumBlocks(_, _, _)
SumNumBlocks(map, kids, k) ==
    IF k > Len(kids) THEN 0 ELSE map[kids[k]].NumBlocks + SumNumBlocks(map, kids, k + 1)

\* The response of a task that ends on an error is not sent.
PublishUnlessError(ch, rsp) == IF rsp.err THEN ch ELSE Append(ch, rsp)

\* rspCh <- &listResponse{...}
Publish(ch, rsp) == Append(ch, rsp)

ListInit ==
    /\ consensusThresh \in {50, 75}
    /\ fullconsensus = NumBlobbers
    /\ mPc = "init"
    /\ tPc = [i \in Blobbers |-> "none"]
    /\ wg = 0
    /\ rspCh = <<>>
    /\ listInfos = <<>>
    /\ mI = 0
    /\ result = [Name |-> "", Path |-> "", Type |-> "", Size |-> 0, NumBlocks |-> 0,
                 Children |-> <<>>]
    /\ childResultMap = <<>>
    /\ selected = {}

\* getlistFromBlobbers: wg.Add(numList), rspCh made, a goroutine per node.
ListStart ==
    /\ mPc = "init"
    /\ wg' = NumBlobbers
    /\ tPc' = [i \in Blobbers |-> "run"]
    /\ mPc' = "wait"
    /\ UNCHANGED <<poolVars, thumbVars, consensusThresh, fullconsensus, rspCh, listInfos, mI,
                   result, childResultMap, selected>>

\* getListInfoFromBlobber of node i up to its return, and the deferred listRetFn:
\* the send blocks while the buffer is full.
TaskRun(i, outcome) ==
    /\ tPc[i] = "run"
    /\ Len(rspCh) < NumBlobbers
    /\ rspCh' = Publish(rspCh, listResponse(i, outcome))
    /\ tPc' = [tPc EXCEPT ![i] = "published"]
    /\ UNCHANGED <<poolVars, thumbVars, consensusThresh, fullconsensus, mPc, wg, listInfos, mI,
                   result, childResultMap, selected>>

\* The deferred req.wg.Done().
TaskDone(i) ==
    /\ tPc[i] = "published"
    /\ wg' = wg - 1
    /\ tPc' = [tPc EXCEPT ![i] = "done"]
    /\ UNCHANGED <<poolVars, thumbVars, consensusThresh, fullconsensus, mPc, rspCh, listInfos, mI,
                   result, childResultMap, selected>>

\* req.wg.Wait() returns.
ListWait ==
    /\ mPc = "wait"
    /\ wg = 0
    /\ mPc' = "collect"
    /\ UNCHANGED <<poolVars, thumbVars, consensusThresh, fullconsensus, tPc, wg, rspCh, listInfos,
                   mI, result, childResultMap, selected>>

\* listInfos[i] = <-rspCh, and the end of the loop.
ListCollect ==
    /\ mPc = "collect"
    /\ IF Len(listInfos) < NumBlobbers
       THEN /\ rspCh # <<>>
            /\ listInfos' = Append(listInfos, Head(rspCh))
            /\ rspCh' = Tail(rspCh)
            /\ UNCHANGED mPc
       ELSE /\ mPc' = "merge"
            /\ UNCHANGED <<listInfos, rspCh>>
    /\ UNCHANGED <<poolVars, thumbVars, consensusThresh, fullconsensus, tPc, wg, mI, result,
                   childResultMap, selected>>

\* One pass of the loop over lR in GetListFromBlobbers, and its end.
ListMerge ==
    /\ mPc = "merge"
    /\ IF mI < Len(listInfos)
       THEN LET ti == listInfos[mI + 1] IN
            /\ mI' = mI + 1
            /\ UNCHANGED mPc
            /\ IF ti.err \/ ti.ref = NilRef
               THEN UNCHANGED <<result, childResultMap, selected>>
               ELSE LET st == MergeChildren([map |-> childResultMap,
                                             selected |-> selected,
                                             kids |-> result.Children],
                                            ti.ref.Children, 1)
                    IN /\ childResultMap' = st.map
                       /\ selected' = st.selected
                       /\ result' = [result EXCEPT
                             !.Name = ti.ref.Name,
                             !.Path = ti.ref.Path,
                             !.Type = ti.ref.Type,
                             !.Size = IF ti.ref.Type = "d" THEN -1 ELSE @,
                             !.Children = st.kids,
                             !.NumBlocks = @ + SumNumBlocks(st.map, st.kids, 1)]
       ELSE /\ mPc' = "done"
            /\ UNCHANGED <<mI, result, childResultMap, selected>>
    /\ UNCHANGED <<poolVars, thumbVars, consensusThresh, fullconsensus, tPc, wg, rspCh, listInfos>>

NextList ==
    \/ ListStart
    \/ \E i \in Blobbers, outcome \in Outcomes : TaskRun(i, outcome)
    \/ \E i \in Blobbers : TaskDone(i)
    \/ ListWait
    \/ ListCollect
    \/ ListMerge

InitList == PoolInit /\ ListInit /\ ThumbIdle

SpecList == InitList /\ [][NextList]_vars

\* One outcome of each kind a task can end on.
FairOutcomes ==
    {[kind |-> k, children |-> <<>>] : k \in {"httpErr", "treeErr"}}
    \cup {[kind |-> "ok", children |-> <<FileA1, DirD>>]}

NextListFair ==
    \/ ListStart
    \/ \E i \in Blobbers, outcome \in FairOutcomes : TaskRun(i, outcome)
    \/ \E i \in Blobbers : TaskDone(i)
    \/ ListWait
    \/ ListCollect
    \/ ListMerge

\* Every goroutine is scheduled, and every request ends within its timeout.
SpecListFair == InitList /\ [][NextListFair]_vars /\ WF_vars(NextListFair)

\* ==================================================== the thumbnail dispatch
DataShards == 2      \* a.DataShards, req.datashards
ParityShards == 6    \* a.ParityShards, req.parityshards
MaxThumbSize == 5    \* largest req.filemeta.ThumbnailSize
ChunkSize == 2       \* fileref.CHUNK_SIZE

NumShards == DataShards + ParityShards

\* The upload masks: the shard indices being sent, all of them or some.
Masks == 0..(2^NumShards - 1)

Min(a, b) == IF a <= b THEN a ELSE b

\* Bit p of the uint32 i.
Bit(i, p) == (i \div 2^p) % 2

\* bits.TrailingZeros32
RECURSIVE TrailingZeros32(_)
TrailingZeros32(i) ==
    IF i = 0 THEN 32
    ELSE IF i % 2 = 1 THEN 0
    ELSE 1 + TrailingZeros32(i \div 2)

\* bits.OnesCount32
RECURSIVE OnesCount32(_)
OnesCount32(i) == IF i = 0 THEN 0 ELSE (i % 2) + OnesCount32(i \div 2)

\* i &= ^(1 << uint32(pos)) on a uint32: a shift by 32 or more gives 0.
ClearBit(i, p) == IF p < 32 /\ Bit(i, p) = 1 THEN i - 2^p ELSE i

\* The channel of the c-th active node: processUpload hands uploadThumbCh[c] to
\* the consumer of the node at the c-th set bit of the mask.
NodeOfChannel(mask, c) ==
    CHOOSE p \in 0..31 :
        /\ Bit(mask, p) = 1
        /\ Cardinality({q \in 0..(p - 1) : Bit(mask, q) = 1}) = c

\* perShard, chunksPerShard and remaining of processThumbnail
PerShard(size) == (size + DataShards - 1) \div DataShards
ChunksPerShard(size) == (PerShard(size) + ChunkSize - 1) \div ChunkSize
Remaining(size, k) == Min(PerShard(size) - k * ChunkSize, ChunkSize)

\* b1 of chunk k: its bytes, each its own value.
Chunk(size, k) == [j \in 1..(Remaining(size, k) * DataShards) |-> <<k, j>>]

\* erasureencoder.Encode(data): one shard per index.
Encode(k) == [p \in 0..(NumShards - 1) |-> [chunk |-> k, index |-> p]]

\* []byte("done")
DoneMsg == [done |-> TRUE]

\* The value of filemeta.ThumbnailHash that the original upload left.
OriginalHash == [original |-> TRUE]

\* The budget is not clamped.
ClampNone(remaining, len) == len

\* n := int64(math.Min(float64(req.thumbRemaining), float64(len(data))))
Clamp(remaining, len) == Min(remaining, len)

\* The shard is taken at the counter.
ShardSentByCounter(shards, p, c) == shards[c]

\* shards[pos]
ShardSent(shards, p, c) == shards[p]

\* The terminal signal is sent in repair mode too.
SendsDoneAlways(repair) == TRUE

\* if !req.isRepair
SendsDone(repair) == ~repair

ThumbInit ==
    /\ uploadMask \in Masks
    /\ isRepair \in BOOLEAN
    /\ thumbnailSize \in 0..MaxThumbSize
    /\ thumbRemaining = thumbnailSize
    /\ thumbnailHash = <<>>
    /\ filemetaThumbnailHash = IF isRepair THEN OriginalHash ELSE EmptyStr
    /\ uploadThumbCh = [c \in 0..(OnesCount32(uploadMask) - 1) |-> <<>>]
    /\ thumbPc = "start"
    /\ ctr = 0
    /\ loopI = 0
    /\ loopC = 0
    /\ thumbWg = 0
    /\ pushes = <<>>
    /\ sends = <<>>
    /\ thumbErr = "none"

\* return, and the deferred wg.Done()
ThumbReturn(err) ==
    /\ thumbPc' = "returned"
    /\ thumbWg' = thumbWg + 1
    /\ thumbErr' = err

\* os.Open(req.thumbnailpath)
ThumbOpen(ok) ==
    /\ thumbPc = "start"
    /\ IF ok
       THEN /\ thumbPc' = "loop"
            /\ UNCHANGED <<thumbWg, thumbErr>>
       ELSE ThumbReturn("open")
    /\ UNCHANGED <<poolVars, listVars, uploadMask, isRepair, thumbnailSize,
                   thumbRemaining, thumbnailHash, filemetaThumbnailHash, uploadThumbCh,
                   ctr, loopI, loopC, pushes, sends>>

\* One chunk: dataReader.Read(b1), and pushThumbnailData(b1) up to its first send.
ThumbChunk(readOk, encodeOk) ==
    /\ thumbPc = "loop"
    /\ ctr < ChunksPerShard(thumbnailSize)
    /\ IF ~readOk
       THEN /\ ThumbReturn("read")
            /\ UNCHANGED <<thumbRemaining, thumbnailHash, pushes, sends, ctr, loopI, loopC>>
       ELSE LET data == Chunk(thumbnailSize, ctr)
                n == Clamp(thumbRemaining, Len(data))
            IN  /\ thumbnailHash' = IF isRepair THEN thumbnailHash
                                    ELSE thumbnailHash \o SubSeq(data, 1, n)
                /\ thumbRemaining' = thumbRemaining - n
                /\ pushes' = Append(pushes, [len |-> Len(data), before |-> thumbRemaining,
                                             chunk |-> ctr])
                /\ sends' = <<>>
                /\ IF ~encodeOk
                   THEN /\ ThumbReturn("encode")
                        /\ UNCHANGED <<ctr, loopI, loopC>>
                   ELSE /\ loopI' = uploadMask
                        /\ loopC' = 0
                        /\ IF uploadMask # 0
                           THEN /\ thumbPc' = "push"
                                /\ UNCHANGED ctr
                           ELSE /\ ctr' = ctr + 1
                                /\ UNCHANGED thumbPc
                        /\ UNCHANGED <<thumbWg, thumbErr>>
    /\ UNCHANGED <<poolVars, listVars, uploadMask, isRepair, thumbnailSize,
                   filemetaThumbnailHash, uploadThumbCh>>

\* One pass of the loop over the mask in pushThumbnailData: the consumer of
\* channel c takes the shard; after the last pass pushThumbnailData returns.
ThumbSend ==
    /\ thumbPc = "push"
    /\ loopI # 0
    /\ LET p == TrailingZeros32(loopI)
           i == ClearBit(loopI, p)
       IN  /\ loopC \in DOMAIN uploadThumbCh
           /\ uploadThumbCh' = [uploadThumbCh EXCEPT
                                   ![loopC] = Append(@, ShardSent(Encode(ctr), p, loopC))]
           /\ sends' = Append(sends, [ch |-> loopC, index |-> p])
           /\ loopC' = loopC + 1
           /\ loopI' = i
           /\ IF i = 0
              THEN /\ ctr' = ctr + 1
                   /\ thumbPc' = "loop"
              ELSE UNCHANGED <<ctr, thumbPc>>
    /\ UNCHANGED <<poolVars, listVars, uploadMask, isRepair, thumbnailSize,
                   thumbRemaining, thumbnailHash, filemetaThumbnailHash, thumbWg,
                   pushes, thumbErr>>

\* The loop over the chunks is over: completeThumbnailPush up to its first send.
ThumbComplete ==
    /\ thumbPc = "loop"
    /\ ctr >= ChunksPerShard(thumbnailSize)
    /\ IF SendsDone(isRepair)
       THEN /\ filemetaThumbnailHash' = Hash(thumbnailHash)
            /\ loopI' = uploadMask
            /\ loopC' = 0
            /\ IF uploadMask # 0
               THEN /\ thumbPc' = "complete"
                    /\ UNCHANGED <<thumbWg, thumbErr>>
               ELSE ThumbReturn("none")
       ELSE /\ ThumbReturn("none")
            /\ UNCHANGED <<filemetaThumbnailHash, loopI, loopC>>
    /\ UNCHANGED <<poolVars, listVars, uploadMask, isRepair, thumbnailSize,
                   thumbRemaining, thumbnailHash, uploadThumbCh, ctr, pushes, sends>>

\* One pass of the loop over the mask in completeThumbnailPush; after the last
\* pass processThumbnail returns.
ThumbSendDone ==
    /\ thumbPc = "complete"
    /\ loopI # 0
    /\ LET p == TrailingZeros32(loopI)
           i == ClearBit(loopI, p)
       IN  /\ loopC \in DOMAIN uploadThumbCh
           /\ uploadThumbCh' = [uploadThumbCh EXCEPT ![loopC] = Append(@, DoneMsg)]
           /\ loopC' = loopC + 1
           /\ loopI' = i
           /\ IF i = 0
              THEN ThumbReturn("none")
              ELSE UNCHANGED <<thumbPc, thumbWg, thumbErr>>
    /\ UNCHANGED <<poolVars, listVars, uploadMask, isRepair, thumbnailSize,
                   thumbRemaining, thumbnailHash, filemetaThumbnailHash, ctr, pushes,
                   sends>>

NextThumb ==
    \/ \E ok \in BOOLEAN : ThumbOpen(ok)
    \/ \E readOk \in BOOLEAN, encodeOk \in BOOLEAN : ThumbChunk(readOk, encodeOk)
    \/ ThumbSend
    \/ ThumbComplete
    \/ ThumbSendDone

InitThumb == PoolInit /\ ListIdle /\ ThumbInit

\* The goroutine of processThumbnail is scheduled, and the consumers take what is
\* sent to them.
SpecThumb == InitThumb /\ [][NextThumb]_vars /\ WF_vars(NextThumb)

\* ========================================================== the properties
\* The workers of node b that were started and have not returned.
LiveWorkers(b) == {w \in ChanIds : wPc[w] \notin {"none", "done"} /\ chanNode[w] = b}

\* The requests of node b in seq, in the order of seq.
OfNode(seq, b) == SelectSeq(seq, LAMBDA r : reqs[r].node = b)

IsPrefix(s, t) == Len(s) <= Len(t) /\ SubSeq(t, 1, Len(s)) = s

\* The processCommit calls under way, and the one that ended last.
Attempts == {reqs[r] : r \in {x \in ReqIds : reqs[x].state = "processing"}} \cup {last}

\* C1: whatever InitCommitWorker calls ran and however they interleaved, each node
\* id has the queue of its registry entry as its only queue with a running worker,
\* a node id without an entry has none, and a node id that was passed in (and
\* whose queue nobody closed) has an entry.
C1_OneQueueOneWorkerPerNode ==
    \A b \in Nodes :
        /\ LiveWorkers(b) = IF commitChan[b] = 0 THEN {} ELSE {commitChan[b]}
        /\ (b \in registered /\ b \notin closedNodes) => commitChan[b] # 0

\* A call with the list b1, b1 has finished its loop, after an earlier call
\* registered b1: one queue, one worker.
C1_Witness ==
    /\ \E c \in Callers : /\ initPc[c] = "loop"
                          /\ initList[c] = <<"b1", "b1">>
                          /\ initI[c] = 3
    /\ nextChan = 1
    /\ LiveWorkers("b1") = {1}
    /\ closedNodes = {}

\* C2: for every node id at most one request is inside processCommit.
C2_SingleFlight ==
    \A b \in Nodes :
        Cardinality({r \in ReqIds : reqs[r].state = "processing" /\ reqs[r].node = b}) <= 1

\* A request of b1 is inside processCommit on the worker of b1's second queue,
\* after the first worker processed a request, saw its queue closed and removed
\* the entry.
C2_Witness ==
    /\ chanNode[1] = "b1" /\ wPc[1] = "done"
    /\ chanNode[2] = "b1" /\ wPc[2] = "submit"
    /\ reqs[1].node = "b1" /\ reqs[1].state = "returned"
    /\ reqs[2].node = "b1" /\ reqs[2].state = "processing"

\* C3: on each node the requests are received in the order in which their sends
\* completed, and a request is received only when processCommit of every request
\* received before it on that node has returned.
C3_FifoPerNode ==
    \A b \in Nodes :
        /\ IsPrefix(OfNode(deq, b), OfNode(enq, b))
        /\ \A i \in 1..(Len(OfNode(deq, b)) - 1) :
              reqs[OfNode(deq, b)[i]].state = "returned"

\* Two requests of one node were processed one after the other.
C3_Witness ==
    /\ OfNode(enq, "b1") = <<1, 2>>
    /\ OfNode(deq, "b1") = <<1, 2>>
    /\ reqs[1].state = "returned" /\ reqs[1].done = 1
    /\ reqs[2].state = "processing"

\* C4: every request whose processCommit returned has its result set and its
\* wg.Done called exactly once.
C4_EveryExitSignals ==
    \A r \in ReqIds :
        reqs[r].state = "returned" => reqs[r].result # NoResult /\ reqs[r].done = 1

\* C5: the markers a node accepted form a hash chain: each marker's
\* allocation_root is Hash(root hash of the mutated tree + ":" + its timestamp),
\* and the previous_allocation_root of a marker built on a fetch that returned the
\* node's latest marker is the allocation_root of the marker accepted before it
\* (the empty string for the first).
C5_HashChain ==
    \A b \in Nodes : \A i \in 1..Len(accepted[b]) :
        LET a == accepted[b][i] IN
        /\ a.wm.root = Hash(Colon(TreeHash(a.children), FormatInt(a.wm.ts)))
        /\ a.lwmLatest =>
              a.wm.prev = IF i = 1 THEN EmptyStr ELSE accepted[b][i - 1].wm.root

\* Two markers accepted one after the other, each built on the node's latest.
C5_Witness ==
    /\ Len(accepted["b1"]) = 2
    /\ \A i \in 1..2 : accepted["b1"][i].lwmLatest

\* The two checks of the previous marker, stated on what the node sent.
PrevMarkerChecks(lR) ==
    /\ VerifySignature(lR.lwm, ClientKey)
    /\ lR.lwm.root = Hash(Colon(TreeHash(lR.ref.children), FormatInt(lR.lwm.ts)))

\* C6: with a previous marker, the commit request is sent only if both checks
\* pass; an attempt in which one fails ends with a failed result, no mutation
\* applied and no commit request. Without a previous marker no attempt fails on
\* the checks.
C6_VerifiedBeforeSubmit ==
    \A rec \in Attempts :
        /\ (rec.lR.lwm # NoWM /\ "commit" \in {rec.calls[i] : i \in 1..Len(rec.calls)})
              => PrevMarkerChecks(rec.lR)
        /\ (rec.lR.lwm # NoWM /\ ~PrevMarkerChecks(rec.lR) /\ rec.state = "returned")
              => /\ rec.result # NoResult
                 /\ ~rec.result.Success
                 /\ rec.applied = 0
                 /\ rec.calls = <<"fetch">>
        /\ (rec.lR.lwm = NoWM /\ rec.state = "returned" /\ rec.result # NoResult)
              => rec.result.ErrorMessage \notin {"sig", "mismatch"}

\* An attempt ended on the chain check: the node sent its latest marker, validly
\* signed, with a tree the marker does not commit to.
C6_Witness ==
    /\ last.state = "returned"
    /\ last.lR.lwm # NoWM
    /\ VerifySignature(last.lR.lwm, ClientKey)
    /\ last.result = ErrorCommitResult("mismatch")

\* The marker's allocation_root is not the one its signer signed.
RootAltered(lwm) ==
    lwm # NoWM /\ lwm.sig.by = ClientKey /\ lwm.sig.over.root # lwm.root

\* C7 as stated: an attempt whose previous marker has an altered allocation_root
\* issues no network request at all.
C7_NoNetworkCallAtAll ==
    \A rec \in Attempts : RootAltered(rec.lR.lwm) => rec.calls = <<>>

\* C7 amended: such an attempt issues the reference path request (which is what
\* delivers the marker) and nothing else: it ends with a failed result and no
\* commit request.
C7_NoCommitAfterTampering ==
    \A rec \in Attempts :
        RootAltered(rec.lR.lwm) =>
            /\ rec.calls = <<"fetch">>
            /\ rec.state = "returned"
            /\ rec.result # NoResult
            /\ ~rec.result.Success
            /\ rec.applied = 0

C7_Witness ==
    /\ RootAltered(last.lR.lwm)
    /\ last.state = "returned"
    /\ last.done = 1

\* The place of the first change of the batch whose ProcessChange fails, 0 if none.
FirstFailing(batch) ==
    IF \E i \in 1..Len(batch) : Change(batch[i]).fails
    THEN CHOOSE i \in 1..Len(batch) :
            /\ Change(batch[i]).fails
            /\ \A j \in 1..(i - 1) : ~Change(batch[j]).fails
    ELSE 0

RECURSIVE SumSizes(_)
SumSizes(batch) ==
    IF batch = <<>> THEN 0 ELSE Change(Head(batch)).size + SumSizes(Tail(batch))

\* C8: a commit request is sent only for a batch all of whose mutations succeeded,
\* its marker's size is the sum of their GetSize and the tree is the fetched one
\* with the whole batch applied in order; an attempt that ended on a mutation
\* failed at the first failing change, with exactly the changes before it applied,
\* a failed result and no commit request.
C8_MutationsInOrder ==
    \A rec \in Attempts :
        /\ "commit" \in {rec.calls[i] : i \in 1..Len(rec.calls)} =>
              /\ FirstFailing(rec.batch) = 0
              /\ rec.applied = Len(rec.batch)
              /\ rec.ref.children = rec.lR.ref.children \o rec.batch
              /\ rec.wm.size = SumSizes(rec.batch)
        /\ (rec.state = "returned" /\ rec.lR.kind # "none" /\ FirstFailing(rec.batch) # 0
            /\ rec.result.ErrorMessage \notin {"net", "sig", "mismatch", "dirtree"}) =>
              /\ rec.result = ErrorCommitResult("mutation")
              /\ rec.applied = FirstFailing(rec.batch) - 1
              /\ rec.ref.children =
                    rec.lR.ref.children \o SubSeq(rec.batch, 1, rec.applied)
              /\ rec.calls = <<"fetch">>
        /\ (rec.state = "returned" /\ rec.result = ErrorCommitResult("mutation")) =>
              FirstFailing(rec.batch) # 0

\* An attempt ended on the second change of a batch of three, after a commit of a
\* whole batch was sent.
C8_Witness ==
    /\ last.state = "returned"
    /\ last.batch = <<1, 3, 2>>
    /\ last.result = ErrorCommitResult("mutation")
    /\ last.applied = 1
    /\ Len(accepted["b1"]) > 0

\* The responses of node i that were published: in the channel or received.
Published(i) ==
    LET all == rspCh \o listInfos
    IN  {j \in 1..Len(all) : all[j].blobberIdx = i}

C9_Safe ==
    mPc # "idle" =>
    /\ \A i \in Blobbers :
          Cardinality(Published(i)) = IF tPc[i] \in {"published", "done"} THEN 1 ELSE 0
    /\ mPc # "init" => wg = Cardinality({i \in Blobbers : tPc[i] \in {"run", "published"}})
    /\ (\E i \in Blobbers : tPc[i] = "run") => Len(rspCh) < NumBlobbers
    /\ (mPc = "collect" /\ Len(listInfos) < NumBlobbers) => rspCh # <<>>
    /\ mPc \in {"merge", "done"} =>
          /\ Len(listInfos) = NumBlobbers
          /\ \A i \in Blobbers : \E j \in 1..NumBlobbers : listInfos[j].blobberIdx = i

\* C9: every task publishes exactly one response, before it signals the barrier,
\* and the send never blocks; the receives after the barrier never block, the
\* responses returned are one per node, and getlistFromBlobbers returns whatever
\* the nodes' outcomes are.
C9_OneResponsePerNode == []C9_Safe /\ <>(mPc = "done")

\* The list returned with a node of every kind of outcome: two that failed before
\* and in the request, one whose tree could not be built, one that answered.
C9_Witness ==
    /\ mPc = "done"
    /\ \E j \in 1..Len(listInfos) : listInfos[j].err /\ listInfos[j].ref # NilRef
    /\ \E j \in 1..Len(listInfos) : listInfos[j].ref = NilRef
    /\ \E j \in 1..Len(listInfos) : ~listInfos[j].err /\ listInfos[j].ref # NilRef

\* The responses merged so far that list the identity key.
Listing(key) ==
    {j \in 1..mI : /\ ~listInfos[j].err
                   /\ listInfos[j].ref # NilRef
                   /\ \E k \in 1..Len(listInfos[j].ref.Children) :
                         ActualHash(listInfos[j].ref.Children[k]) = key}

\* The children of the result, as records.
Children == [k \in 1..Len(result.Children) |-> childResultMap[result.Children[k]]]

C10_PromotedReachedMinimum ==
    mPc \in {"merge", "done"} =>
        \A k \in 1..Len(Children) : isConsensusMin(Children[k])

C10_PromotedOnce ==
    mPc \in {"merge", "done"} =>
        \A k, l \in 1..Len(result.Children) :
            result.Children[k] = result.Children[l] => k = l

C10_CounterIsResponses ==
    mPc \in {"merge", "done"} =>
        \A key \in DOMAIN childResultMap :
            childResultMap[key].consensus = Cardinality(Listing(key))

\* With a threshold of 3/4: three responses list /a with hash h1, one lists it
\* with h2, and the result has one child /a, with h1 and a counter of 3.
C10_Example ==
    (/\ mPc = "done"
     /\ consensusThresh = 75
     /\ Cardinality(Listing(ActualHash(FileA1))) = 3
     /\ Cardinality(Listing(ActualHash(FileA2))) = 1)
    => \E k \in 1..Len(Children) :
          /\ Children[k].Path = "/a"
          /\ Children[k].Hash = "h1"
          /\ Children[k].consensus = 3
          /\ \A l \in 1..Len(Children) : Children[l].Path = "/a" => l = k

\* C10: every child of the result has reached the consensus minimum, no record is
\* a child twice, a record's counter is the number of successful responses that
\* list its identity key, and the example of four nodes holds.
C10_QuorumPromotion ==
    /\ C10_PromotedReachedMinimum
    /\ C10_PromotedOnce
    /\ C10_CounterIsResponses
    /\ C10_Example

\* C11: a record is a child of the result exactly once from the response on with
\* which its counter reaches the consensus minimum, and never before; two
\* versions of a file at one path that both reach it are both children.
C11_EveryQuorumRecordPromoted ==
    mPc \in {"merge", "done"} =>
        \A key \in DOMAIN childResultMap :
            Cardinality({k \in 1..Len(result.Children) : result.Children[k] = key})
                = IF isConsensusMin(childResultMap[key]) THEN 1 ELSE 0

\* C12: at the return of GetListFromBlobbers, result.NumBlocks is the sum of the
\* NumBlocks of the children of the result.
C12_NumBlocksIsSumOfChildren ==
    mPc = "done" =>
        result.NumBlocks = SumNumBlocks(childResultMap, result.Children, 1)

\* The entries with the identity key that the first j responses report, in the
\* order the merge meets them.
RECURSIVE Reports(_, _)
Reports(key, j) ==
    IF j = 0 THEN <<>>
    ELSE Reports(key, j - 1) \o
         (IF listInfos[j].err \/ listInfos[j].ref = NilRef THEN <<>>
          ELSE SelectSeq(listInfos[j].ref.Children, LAMBDA c : ActualHash(c) = key))

RECURSIVE SumSize(_, _)
SumSize(entries, k) ==
    IF k > Len(entries) THEN 0 ELSE entries[k].Size + SumSize(entries, k + 1)

RECURSIVE SumBlocks(_, _)
SumBlocks(entries, k) ==
    IF k > Len(entries) THEN 0 ELSE entries[k].NumBlocks + SumBlocks(entries, k + 1)

\* C18: the Size of a file record is the sum of the sizes reported for its
\* identity key by the responses merged so far, its NumBlocks the sum of the
\* reported block counts, and Hash and MimeType are those of the last report;
\* with k responses that each list the key once these are sums of k terms.
C18_SizeAccumulates ==
    mPc \in {"merge", "done"} =>
        \A key \in DOMAIN childResultMap :
            LET rec == childResultMap[key]
                reported == Reports(key, mI)
            IN  /\ Len(reported) >= 1
                /\ rec.NumBlocks = SumBlocks(reported, 1)
                /\ rec.Type = "f" =>
                      /\ rec.Size = SumSize(reported, 1)
                      /\ rec.Hash = reported[Len(reported)].ActualFileHash
                      /\ rec.MimeType = reported[Len(reported)].MimeType
                /\ Cardinality(Listing(key)) = Len(reported) =>
                      rec.consensus = Cardinality(Listing(key))

\* Three responses list /a with hash h1 once each, with sizes 10, 30 and 10 in
\* this order: the record has size 50 and the mime type of the third.
C18_Witness ==
    /\ mPc = "done"
    /\ LET key == ActualHash(FileA1)
       IN  /\ key \in DOMAIN childResultMap
           /\ Cardinality(Listing(key)) = 3
           /\ Reports(key, mI) = <<FileA1, FileA1b, FileA1>>
           /\ childResultMap[key].Size = 50
           /\ childResultMap[key].NumBlocks = 6
           /\ childResultMap[key].MimeType = "m1"

\* The requests in a sequence.
Range(seq) == {seq[i] : i \in 1..Len(seq)}

\* A worker that left its loop: its queue is closed and drained, every request
\* that was sent was received, and every request received has returned unless a
\* worker is inside its processCommit; until it removes the entry, the entry of
\* its node is its own queue; it removes it holding initCommitMutex.
C17_Safe ==
    /\ Range(enq) = Range(deq) \cup UNION {Range(chanBuf[w]) : w \in ChanIds}
    /\ \A r \in Range(deq) :
          \/ reqs[r].state = "returned"
          \/ \E w \in ChanIds : wReq[w] = r /\ wPc[w] \in {"fetch", "submit"}
    /\ \A w \in ChanIds :
          /\ wPc[w] \in {"exiting", "locked", "done"} =>
                chanClosed[w] /\ chanBuf[w] = <<>> /\ wReq[w] = 0
          /\ wPc[w] \in {"exiting", "locked"} => commitChan[chanNode[w]] = w
          /\ wPc[w] = "locked" => initCommitMutex = NumCallers + w

\* An entry is removed only by the worker of the queue it holds, and a node gets
\* an entry only when it has none: a queue never used before, with a new worker.
C17_Step ==
    \A b \in Nodes :
        /\ (commitChan[b] # 0 /\ commitChan'[b] # commitChan[b]) =>
              /\ commitChan'[b] = 0
              /\ wPc[commitChan[b]] = "locked"
              /\ wPc'[commitChan[b]] = "done"
              /\ initCommitMutex = NumCallers + commitChan[b]
        /\ (commitChan[b] = 0 /\ commitChan'[b] # 0) =>
              /\ wPc[commitChan'[b]] = "none"
              /\ wPc'[commitChan'[b]] = "recv"
              /\ chanBuf[commitChan'[b]] = <<>>
              /\ ~chanClosed[commitChan'[b]]

\* C17: the worker of a closed queue processes what the queue still buffers,
\* leaves its loop and removes the entry of its node under initCommitMutex, and
\* only its own entry; a later InitCommitWorker makes the node a new queue and
\* worker.
C17_ClosedQueueDeregisters ==
    /\ []C17_Safe
    /\ [][C17_Step]_vars
    /\ \A w \in ChanIds : chanClosed[w] ~> (wPc[w] = "done" \/ panicked)

\* The first queue of b1 was closed, its worker processed a request and removed
\* the entry; b1 has its second queue and worker, and a request in that queue.
C17_Witness ==
    /\ chanNode[1] = "b1" /\ chanClosed[1] /\ wPc[1] = "done"
    /\ chanNode[2] = "b1" /\ ~chanClosed[2] /\ wPc[2] = "recv"
    /\ commitChan["b1"] = 2
    /\ deq = <<1>>
    /\ chanBuf[2] = <<2>>

\* C19: a processCommit whose GetDirTree failed returns with a failed result,
\* has applied no mutation and has sent no commit request, whatever latest marker
\* the node answered with.
C19_TreeErrorFails ==
    \A a \in Attempts :
        a.lR.kind = "dirErr" =>
            /\ a.state = "returned"
            /\ a.result \in {ErrorCommitResult(m) : m \in {"dirtree", "sig", "mismatch"}}
            /\ a.done = 1
            /\ a.applied = 0
            /\ a.calls = <<"fetch">>

\* The same without a latest marker in the node's answer.
C19_TreeErrorFailsWithoutMarker ==
    \A a \in Attempts :
        (a.lR.kind = "dirErr" /\ a.lR.lwm = NoWM) =>
            /\ a.state = "returned"
            /\ a.result = ErrorCommitResult("dirtree")
            /\ a.done = 1
            /\ a.applied = 0
            /\ a.calls = <<"fetch">>

\* A request whose lookup found no entry: its send is on the nil channel.
OnNilChannel(r) == reqs[r].state = "sending" /\ reqs[r].ch = 0

C20_Safe ==
    \A r \in ReqIds :
        reqs[r].state \in {"sending", "raced"} =>
            /\ r \notin Range(enq)
            /\ \A w \in ChanIds : wReq[w] # r /\ r \notin Range(chanBuf[w])
            /\ reqs[r].result = NoResult
            /\ reqs[r].done = 0

\* The lookup takes the entry the registry holds at that moment, whoever holds
\* initCommitMutex, and the nil channel when there is none; a request on the nil
\* channel never changes again, whatever is registered later.
C20_Step ==
    \A r \in ReqIds :
        /\ (reqs[r].state = "new" /\ reqs'[r].state = "sending") =>
              reqs'[r].ch = commitChan[reqs'[r].node]
        /\ OnNilChannel(r) => reqs'[r] = reqs[r]

\* C20: AddCommitRequest reads the registry without initCommitMutex; a request
\* for a node without an entry is sent on the nil channel: it reaches no queue
\* and no worker, and gets neither a result nor its wg.Done, for ever.
C20_UnregisteredBlocksForever == []C20_Safe /\ [][C20_Step]_vars

\* The worker of b1's queue removed the entry after the queue was closed, and
\* the lookup of request 1 found no entry for b1: the request waits on the nil
\* channel. The lookup of request 2 overlapped a write of the registry by a
\* goroutine that held initCommitMutex.
C20_Witness ==
    /\ OnNilChannel(1) /\ reqs[1].node = "b1"
    /\ "b1" \in registered
    /\ \E w \in ChanIds : chanNode[w] = "b1" /\ wPc[w] = "done"
    /\ reqs[2].state = "raced"
    /\ initCommitMutex # 0

\* The shards of chunk k among the messages of a channel.
ShardsOfChunk(ch, k) == {j \in 1..Len(ch) : ch[j] # DoneMsg /\ ch[j].chunk = k}

\* The chunks whose pushThumbnailData returned nil.
PushedChunks == 0..(ctr - 1)

C13_Safe ==
    thumbPc # "idle" =>
    /\ DOMAIN uploadThumbCh = 0..(OnesCount32(uploadMask) - 1)
    /\ \A c \in DOMAIN uploadThumbCh :
          /\ Bit(uploadMask, NodeOfChannel(uploadMask, c)) = 1
          /\ \A j \in 1..Len(uploadThumbCh[c]) :
                uploadThumbCh[c][j] # DoneMsg =>
                    uploadThumbCh[c][j].index = NodeOfChannel(uploadMask, c)
          /\ \A k \in PushedChunks : Cardinality(ShardsOfChunk(uploadThumbCh[c], k)) = 1
    /\ \A j \in 1..Len(sends) :
          /\ sends[j].ch = j - 1
          /\ sends[j].index = NodeOfChannel(uploadMask, j - 1)
          /\ j > 1 => sends[j - 1].index < sends[j].index
    /\ Len(sends) <= OnesCount32(uploadMask)
    /\ (thumbPc = "loop" /\ ctr > 0) => Len(sends) = OnesCount32(uploadMask)
    /\ thumbPc \in {"push", "complete"} => loopI # 0 /\ loopC < OnesCount32(uploadMask)

\* C13: one call of pushThumbnailData sends popcount(mask) shards, one per set
\* bit in ascending order of the bits, the shard of index i on the channel of
\* node i and on no other; the loops over the mask end for every mask.
C13_OneShardPerSetBit == []C13_Safe /\ <>(thumbPc = "returned")

\* The mask {0, 2, 5}: the first chunk was pushed with three sends, shard 0 on
\* the channel of node 0, shard 2 on that of node 2, shard 5 on that of node 5.
C13_Witness ==
    /\ uploadMask = 37
    /\ thumbPc = "loop" /\ ctr = 1
    /\ sends = <<[ch |-> 0, index |-> 0], [ch |-> 1, index |-> 2], [ch |-> 2, index |-> 5]>>
    /\ NodeOfChannel(37, 0) = 0 /\ NodeOfChannel(37, 1) = 2 /\ NodeOfChannel(37, 2) = 5
    /\ \A c \in 0..2 : Len(uploadThumbCh[c]) = 1

\* The messages of the channel of node p after a dispatch of n chunks that ended
\* with the terminal signal.
ShardsThenDone(p, n) == [j \in 1..(n + 1) |-> IF j <= n THEN [chunk |-> j - 1, index |-> p]
                                              ELSE DoneMsg]

\* C14: a dispatch that is not a repair and returned without an error has sent on
\* every active node's channel one shard per chunk and then "done", once and as
\* the last message; a repair sends "done" on no channel and leaves
\* filemeta.ThumbnailHash as it was.
C14_DoneIsLast ==
    thumbPc # "idle" =>
    /\ \A c \in DOMAIN uploadThumbCh :
          /\ \A j \in 1..Len(uploadThumbCh[c]) :
                uploadThumbCh[c][j] = DoneMsg => (j = Len(uploadThumbCh[c]) /\ ~isRepair)
          /\ (thumbPc = "returned" /\ ~isRepair /\ thumbErr = "none") =>
                uploadThumbCh[c] = ShardsThenDone(NodeOfChannel(uploadMask, c),
                                                  ChunksPerShard(thumbnailSize))
    /\ (thumbPc = "returned" /\ ~isRepair /\ thumbErr = "none") =>
          filemetaThumbnailHash = Hash(thumbnailHash)
    /\ isRepair => filemetaThumbnailHash = OriginalHash

\* A dispatch of two chunks to three nodes returned after the terminal signals.
C14_Witness ==
    /\ thumbPc = "returned" /\ ~isRepair /\ thumbErr = "none"
    /\ uploadMask = 37
    /\ ChunksPerShard(thumbnailSize) = 2
    /\ \A c \in 0..2 : Len(uploadThumbCh[c]) = 3 /\ uploadThumbCh[c][3] = DoneMsg

\* C15: when a dispatch that is not a repair has returned, whether the thumbnail
\* could be opened, read and encoded or not, wg.Done() was called once and the
\* consumer of every active node's channel has received the terminal signal.
C15_FailureReleasesConsumers ==
    (thumbPc = "returned" /\ ~isRepair) =>
        /\ thumbWg = 1
        /\ \A c \in DOMAIN uploadThumbCh :
              /\ uploadThumbCh[c] # <<>>
              /\ uploadThumbCh[c][Len(uploadThumbCh[c])] = DoneMsg

\* The barrier is notified once on every return.
C15_BarrierNotifiedOnce ==
    /\ thumbPc = "returned" => thumbWg = 1
    /\ thumbPc \in {"start", "loop", "push", "complete"} => thumbWg = 0

\* The bytes hashed by the first j calls of pushThumbnailData, were every call
\* to hash the leading min(budget, len) bytes of its chunk.
RECURSIVE LeadingBytes(_)
LeadingBytes(j) ==
    IF j = 0 THEN <<>>
    ELSE LeadingBytes(j - 1) \o
         SubSeq(Chunk(thumbnailSize, pushes[j].chunk), 1,
                Min(pushes[j].before, pushes[j].len))

RECURSIVE TotalPushed(_)
TotalPushed(j) == IF j = 0 THEN 0 ELSE TotalPushed(j - 1) + pushes[j].len

C16_Safe ==
    thumbPc # "idle" =>
    /\ thumbRemaining >= 0
    /\ thumbRemaining <= thumbnailSize
    /\ \A j \in 1..Len(pushes) :
          /\ pushes[j].before = IF j = 1 THEN thumbnailSize
                                ELSE pushes[j - 1].before
                                     - Min(pushes[j - 1].before, pushes[j - 1].len)
          /\ pushes[j].len = Len(Chunk(thumbnailSize, pushes[j].chunk))
    /\ thumbRemaining = IF pushes = <<>> THEN thumbnailSize
                        ELSE pushes[Len(pushes)].before
                             - Min(pushes[Len(pushes)].before, pushes[Len(pushes)].len)
    /\ thumbnailHash = IF isRepair THEN <<>> ELSE LeadingBytes(Len(pushes))
    /\ ~isRepair => Len(thumbnailHash) = Min(thumbnailSize, TotalPushed(Len(pushes)))

\* C16: the budget starts at the declared size, never grows and is never
\* negative; a call of pushThumbnailData takes min(budget, len(data)) from it,
\* and hashes that many leading bytes of the data unless the session is a repair.
C16_BudgetClamped == []C16_Safe /\ [][thumbRemaining' <= thumbRemaining]_vars

\* Five bytes in chunks of four and two: the second call had a budget of one
\* byte for its two, and hashed one.
C16_Witness ==
    /\ ~isRepair
    /\ thumbnailSize = 5
    /\ Len(pushes) = 2
    /\ pushes[2].before = 1 /\ pushes[2].len = 2
    /\ thumbRemaining = 0
    /\ thumbnailHash = <<<<0, 1>>, <<0, 2>>, <<0, 3>>, <<0, 4>>, <<1, 1>>>>

====
